---------------------------- MODULE Spec2Model ----------------------------
(***************************************************************************)
(* Model of the frame-acquisition pipeline of src/gui/camera_feed.py:      *)
(* the CameraGrabber thread (run), the bounded preview queue, the save     *)
(* cadence, and the Tk consumer (update_ui, on_close).                     *)
(*                                                                         *)
(* Frames are identified by their retrieval sequence number 1, 2, ...;     *)
(* 0 stands for Python's None where a frame is expected.  Time is counted  *)
(* in integer ticks.  An exception is a record [kind, msg]; str(e) is its  *)
(* msg field.  Python's None for the err attribute is the value None.      *)
(***************************************************************************)
EXTENDS Integers, Sequences, FiniteSets, TLC

\* ----------------------------------------------------------------- bounds
\* Frames the device delivers in one session.
MaxFrames == 3
\* Last value of the wall clock.
MaxTime == 4
\* The call counters of the history stop counting here.
MaxCalls == 2
\* The synthetic stream of the cadence check: its length in frames, and the
\* largest frame period and save interval tried, in ticks.
StreamFrames == 100
MaxPeriod == 3
MaxInterval == 5

\* ------------------------------------------------------ program constants
\* queue.Queue(maxsize=2)
maxsize == 2
\* TARGET_SAVE_INTERVAL = 1.0 / SAVE_RATE, in ticks.
TARGET_SAVE_INTERVAL == 2

\* self.err = None
None == "<None>"
\* self.err = "No Basler camera found"
NoCameraMsg == "No Basler camera found"
\* The message of pylon's TimeoutException.
TimeoutMsg == "Grab timed out"
\* Messages str(e) can give for any other exception; str(Exception()) is "".
Msgs == {"", "E"}

\* An exception: its class, its message, and the call that raised it.
NoExc == [kind |-> "NoExc", msg |-> "", at |-> ""]
TimeoutException == [kind |-> "Timeout", msg |-> TimeoutMsg, at |-> ""]
OtherExceptions == {[kind |-> "Other", msg |-> m, at |-> ""] : m \in Msgs}

\* Python truthiness of grabber.err (None and "" are falsy).
Truthy(s) == s # None /\ s # ""

\* str(e)
Str(e) == e.msg

\* time.time() at thread start: the epoch clock is far beyond one interval.
StartClock == TARGET_SAVE_INTERVAL

VARIABLES
    \* CameraGrabber thread
    pc,             \* position of run()
    devs,           \* result of tl.EnumerateDevices(): "unset", "empty", "found"
    cam,            \* self.cam: "None" or "camera"
    camOpen,        \* the device is open
    grabbing,       \* cam.IsGrabbing()
    err,            \* self.err
    exc,            \* the exception raised in the try body (NoExc: none)
    tdFail,         \* the teardown call that raised: "none", "stop", "close"
    escaped,        \* an exception left run()
    frame_index,    \* self.frame_index
    last_save_time, \* self.last_save_time
    frame,          \* local frame of run() (0: none)
    now,            \* local now of run()
    seq,            \* frames retrieved so far
    \* shared
    q,              \* the preview queue
    stop_event,     \* threading.Event
    \* consumer (Tk main thread)
    upc,            \* position of the consumer
    uframe,         \* local frame of update_ui (0: None)
    tk_image,       \* the frame on display (0: none)
    info,           \* the status label
    \* environment
    clock,          \* the last value time.time() returned
    files,          \* frame files on disk: records [idx, frame, t]
    \* history
    offered,        \* frames offered to q since the consumer last emptied it
    tainted,        \* the consumer removed a frame and left q non-empty since
    nOpen,          \* cam.Open() calls
    nRetr,          \* cam.RetrieveResult() calls
    retrAfterStop,  \* RetrieveResult() calls that returned with stop_event set
    stopBeforeOpen, \* stop_event was set before cam.Open() had succeeded
    drained,        \* frames removed from q in the current update_ui
    lastOffered,    \* the frame last offered to q (0: none)
    putAfterStop,   \* frames offered to q with stop_event set
    saveAfterStop,  \* frame files written with stop_event set
    \* application
    exited,         \* the process has exited (sys.exit in the motor window)
    sim             \* the synthetic retrieval stream of the cadence check

grabVars == <<pc, devs, cam, camOpen, grabbing, err, exc, tdFail, escaped,
              frame_index, last_save_time, frame, now, seq>>
uiVars == <<upc, uframe, tk_image, info>>
histVars == <<offered, tainted, nOpen, nRetr, retrAfterStop>>
hist2Vars == <<stopBeforeOpen, drained, lastOffered, putAfterStop,
               saveAfterStop>>
appVars == <<exited, sim>>
vars == <<grabVars, q, stop_event, uiVars, clock, files, histVars,
          hist2Vars, appVars>>

\* No synthetic stream: the device decides when frames come.
NoStream == [period |-> 0, interval |-> TARGET_SAVE_INTERVAL]

InfoStarting == [kind |-> "starting", err |-> None, n |-> 0]

Init ==
    /\ pc = "enumerate" /\ devs = "unset" /\ cam = "None"
    /\ camOpen = FALSE /\ grabbing = FALSE
    /\ err = None /\ exc = NoExc /\ tdFail = "none" /\ escaped = FALSE
    /\ frame_index = 0 /\ last_save_time = 0
    /\ frame = 0 /\ now = 0 /\ seq = 0
    /\ q = <<>> /\ stop_event = FALSE
    /\ upc = "idle" /\ uframe = 0 /\ tk_image = 0 /\ info = InfoStarting
    /\ clock = StartClock /\ files = {}
    /\ offered = <<>> /\ tainted = FALSE
    /\ nOpen = 0 /\ nRetr = 0 /\ retrAfterStop = 0
    /\ stopBeforeOpen = FALSE /\ drained = <<>> /\ lastOffered = 0
    /\ putAfterStop = 0 /\ saveAfterStop = 0
    /\ exited = FALSE /\ sim = NoStream


\* ===================================================== CameraGrabber.run
\* One more call in a history counter.
Count(n) == IF n < MaxCalls THEN n + 1 ELSE n

\* A history sequence with one more entry; it keeps the last MaxFrames.
Remember(h, x) ==
    IF Len(h) < MaxFrames THEN Append(h, x) ELSE Append(Tail(h), x)

\* Variant: a timeout is passed over and the loop goes on.
ThrowUnlessTimeout(e) ==
    /\ pc' = IF e.kind = "Timeout" THEN "loop" ELSE "except"
    /\ exc' = [e EXCEPT !.at = pc]

\* An exception raised inside the try body: control goes to the handler.
Throw(e) ==
    /\ pc' = "except"
    /\ exc' = [e EXCEPT !.at = pc]

\* Variant: the return after "No Basler camera found" is missing.
EnumerateDevicesNoReturn ==
    /\ pc = "enumerate"
    /\ \/ /\ devs' = "empty"
          /\ err' = NoCameraMsg
          /\ pc' = "create"
          /\ UNCHANGED exc
       \/ /\ devs' = "found"
          /\ pc' = "create"
          /\ UNCHANGED <<err, exc>>
       \/ /\ \E e \in OtherExceptions : Throw(e)
          /\ UNCHANGED <<devs, err>>
    /\ UNCHANGED <<cam, camOpen, grabbing, tdFail, escaped, frame_index,
                   last_save_time, frame, now, seq>>
    /\ UNCHANGED <<q, stop_event, uiVars, clock, files, histVars>>
    /\ UNCHANGED <<hist2Vars, appVars>>

\* tl.EnumerateDevices(); if not devs: self.err = ...; return
EnumerateDevices ==
    /\ pc = "enumerate"
    /\ \/ /\ devs' = "empty"
          /\ err' = NoCameraMsg
          /\ pc' = "finally"
          /\ UNCHANGED exc
       \/ /\ devs' = "found"
          /\ pc' = "create"
          /\ UNCHANGED <<err, exc>>
       \/ /\ \E e \in OtherExceptions : Throw(e)
          /\ UNCHANGED <<devs, err>>
    /\ UNCHANGED <<cam, camOpen, grabbing, tdFail, escaped, frame_index,
                   last_save_time, frame, now, seq>>
    /\ UNCHANGED <<q, stop_event, uiVars, clock, files, histVars>>
    /\ UNCHANGED <<hist2Vars, appVars>>

\* self.cam = pylon.InstantCamera(tl.CreateFirstDevice())
CreateCamera ==
    /\ pc = "create"
    /\ \/ /\ cam' = "camera"
          /\ pc' = "open"
          /\ UNCHANGED exc
       \/ /\ \E e \in OtherExceptions : Throw(e)
          /\ UNCHANGED cam
    /\ UNCHANGED <<devs, camOpen, grabbing, err, tdFail, escaped, frame_index,
                   last_save_time, frame, now, seq>>
    /\ UNCHANGED <<q, stop_event, uiVars, clock, files, histVars>>
    /\ UNCHANGED <<hist2Vars, appVars>>

\* self.cam.Open()
Open ==
    /\ pc = "open"
    /\ nOpen' = Count(nOpen)
    /\ \/ /\ camOpen' = TRUE
          /\ pc' = "configure"
          /\ UNCHANGED exc
       \/ /\ \E e \in OtherExceptions : Throw(e)
          /\ UNCHANGED camOpen
    /\ UNCHANGED <<devs, cam, grabbing, err, tdFail, escaped, frame_index,
                   last_save_time, frame, now, seq>>
    /\ UNCHANGED <<q, stop_event, uiVars, clock, files>>
    /\ UNCHANGED <<offered, tainted, nRetr, retrAfterStop>>
    /\ UNCHANGED <<hist2Vars, appVars>>

\* GetDeviceInfo, GainAuto, Gain, PixelFormat, ImageFormatConverter
Configure ==
    /\ pc = "configure"
    /\ \/ /\ pc' = "startgrab"
          /\ UNCHANGED exc
       \/ \E e \in OtherExceptions : Throw(e)
    /\ UNCHANGED <<devs, cam, camOpen, grabbing, err, tdFail, escaped,
                   frame_index, last_save_time, frame, now, seq>>
    /\ UNCHANGED <<q, stop_event, uiVars, clock, files, histVars>>
    /\ UNCHANGED <<hist2Vars, appVars>>

\* self.cam.StartGrabbing(pylon.GrabStrategy_LatestImageOnly)
StartGrabbing ==
    /\ pc = "startgrab"
    /\ \/ /\ grabbing' = TRUE
          /\ pc' = "loop"
          /\ UNCHANGED exc
       \/ /\ \E e \in OtherExceptions : Throw(e)
          /\ UNCHANGED grabbing
    /\ UNCHANGED <<devs, cam, camOpen, err, tdFail, escaped, frame_index,
                   last_save_time, frame, now, seq>>
    /\ UNCHANGED <<q, stop_event, uiVars, clock, files, histVars>>
    /\ UNCHANGED <<hist2Vars, appVars>>

\* Variant: the loop condition does not read the stop flag.
LoopConditionNoStop == grabbing

\* Variant: the loop goes on while either half of the condition holds.
LoopConditionOr == ~stop_event \/ grabbing

\* The loop condition: not self.stop_event.is_set() and self.cam.IsGrabbing()
LoopCondition == ~stop_event /\ grabbing

\* while <condition>:
LoopCheck ==
    /\ pc = "loop"
    /\ pc' = IF LoopCondition THEN "retrieve" ELSE "finally"
    /\ UNCHANGED <<devs, cam, camOpen, grabbing, err, exc, tdFail, escaped,
                   frame_index, last_save_time, frame, now, seq>>
    /\ UNCHANGED <<q, stop_event, uiVars, clock, files, histVars>>
    /\ UNCHANGED <<hist2Vars, appVars>>

\* What RetrieveResult(5000, TimeoutHandling_ThrowException) raises: the
\* timeout is thrown, like every other failure of the call.
RetrieveRaises == {TimeoutException} \cup OtherExceptions

\* grab = self.cam.RetrieveResult(...); if grab.GrabSucceeded(): a frame, a
\* grab result that did not succeed, or an exception.
RetrieveResult ==
    /\ pc = "retrieve"
    /\ nRetr' = Count(nRetr)
    /\ retrAfterStop' = IF stop_event THEN Count(retrAfterStop)
                        ELSE retrAfterStop
    /\ \/ /\ grabbing /\ seq < MaxFrames
          /\ seq' = seq + 1
          /\ pc' = "convert"
          /\ UNCHANGED exc
       \/ /\ grabbing
          /\ pc' = "release"
          /\ UNCHANGED <<exc, seq>>
       \/ /\ \E e \in RetrieveRaises : Throw(e)
          /\ UNCHANGED seq
    /\ UNCHANGED <<devs, cam, camOpen, grabbing, err, tdFail, escaped,
                   frame_index, last_save_time, frame, now>>
    /\ UNCHANGED <<q, stop_event, uiVars, clock, files>>
    /\ UNCHANGED <<offered, tainted, nOpen>>
    /\ UNCHANGED <<hist2Vars, appVars>>

\* frame = self.converter.Convert(grab).GetArray()
Convert ==
    /\ pc = "convert"
    /\ \/ /\ frame' = seq
          /\ pc' = "put"
          /\ UNCHANGED exc
       \/ /\ \E e \in OtherExceptions : Throw(e)
          /\ UNCHANGED frame
    /\ UNCHANGED <<devs, cam, camOpen, grabbing, err, tdFail, escaped,
                   frame_index, last_save_time, now, seq>>
    /\ UNCHANGED <<q, stop_event, uiVars, clock, files, histVars>>
    /\ UNCHANGED <<hist2Vars, appVars>>

\* Variant: the capacity test off by one.
FullOffByOne(qq) == Len(qq) > maxsize

\* queue.Queue.full(): 0 < maxsize <= qsize
Full(qq) == Len(qq) >= maxsize

\* Variant: a full queue drops its oldest frame for the new one.
PutNowaitDropOldest ==
    /\ pc = "put"
    /\ q' = IF Full(q) THEN Append(Tail(q), frame) ELSE Append(q, frame)
    /\ offered' = Remember(offered, frame)
    /\ pc' = "savecheck"
    /\ UNCHANGED <<devs, cam, camOpen, grabbing, err, exc, tdFail, escaped,
                   frame_index, last_save_time, frame, now, seq>>
    /\ UNCHANGED <<stop_event, uiVars, clock, files>>
    /\ UNCHANGED <<tainted, nOpen, nRetr, retrAfterStop>>
    /\ lastOffered' = frame
    /\ putAfterStop' = IF stop_event THEN Count(putAfterStop) ELSE putAfterStop
    /\ UNCHANGED <<stopBeforeOpen, drained, saveAfterStop, appVars>>

\* Variant: the new frame goes to the front of the queue.
PutNowaitFront ==
    /\ pc = "put"
    /\ q' = IF Full(q) THEN q ELSE <<frame>> \o q
    /\ offered' = Remember(offered, frame)
    /\ pc' = "savecheck"
    /\ UNCHANGED <<devs, cam, camOpen, grabbing, err, exc, tdFail, escaped,
                   frame_index, last_save_time, frame, now, seq>>
    /\ UNCHANGED <<stop_event, uiVars, clock, files>>
    /\ UNCHANGED <<tainted, nOpen, nRetr, retrAfterStop>>
    /\ lastOffered' = frame
    /\ putAfterStop' = IF stop_event THEN Count(putAfterStop) ELSE putAfterStop
    /\ UNCHANGED <<stopBeforeOpen, drained, saveAfterStop, appVars>>

\* Variant: a frame the full queue rejects is not considered for saving.
PutNowaitSkipSaveOnFull ==
    /\ pc = "put"
    /\ q' = IF Full(q) THEN q ELSE Append(q, frame)
    /\ offered' = Remember(offered, frame)
    /\ pc' = IF Full(q) THEN "release" ELSE "savecheck"
    /\ UNCHANGED <<devs, cam, camOpen, grabbing, err, exc, tdFail, escaped,
                   frame_index, last_save_time, frame, now, seq>>
    /\ UNCHANGED <<stop_event, uiVars, clock, files>>
    /\ UNCHANGED <<tainted, nOpen, nRetr, retrAfterStop>>
    /\ lastOffered' = frame
    /\ putAfterStop' = IF stop_event THEN Count(putAfterStop) ELSE putAfterStop
    /\ UNCHANGED <<stopBeforeOpen, drained, saveAfterStop, appVars>>

\* self.q.put_nowait(frame), queue.Full passed over
PutNowait ==
    /\ pc = "put"
    /\ q' = IF Full(q) THEN q ELSE Append(q, frame)
    /\ offered' = Remember(offered, frame)
    /\ pc' = "savecheck"
    /\ UNCHANGED <<devs, cam, camOpen, grabbing, err, exc, tdFail, escaped,
                   frame_index, last_save_time, frame, now, seq>>
    /\ UNCHANGED <<stop_event, uiVars, clock, files>>
    /\ UNCHANGED <<tainted, nOpen, nRetr, retrAfterStop>>
    /\ lastOffered' = frame
    /\ putAfterStop' = IF stop_event THEN Count(putAfterStop) ELSE putAfterStop
    /\ UNCHANGED <<stopBeforeOpen, drained, saveAfterStop, appVars>>

\* Variant: the interval must be exceeded, not only met.
DueStrict(t, last) == t - last > TARGET_SAVE_INTERVAL

\* Variant of the comparison for any interval, exceeded and not only met.
DueWithStrict(t, last, interval) == t - last > interval

\* now - self.last_save_time >= <interval>, for the interval 1.0 / SAVE_RATE
\* of any save rate.
DueWith(t, last, interval) == t - last >= interval

\* now - self.last_save_time >= TARGET_SAVE_INTERVAL
Due(t, last) == DueWith(t, last, TARGET_SAVE_INTERVAL)

\* now = time.time(); if now - self.last_save_time >= TARGET_SAVE_INTERVAL:
\* time.time() returns a value not before the one it returned last.
SaveCheck ==
    /\ pc = "savecheck"
    /\ \E t \in clock .. MaxTime :
          /\ clock' = t
          /\ now' = t
          /\ pc' = IF Due(t, last_save_time) THEN "imwrite" ELSE "release"
    /\ UNCHANGED <<devs, cam, camOpen, grabbing, err, exc, tdFail, escaped,
                   frame_index, last_save_time, frame, seq>>
    /\ UNCHANGED <<q, stop_event, uiVars, files, histVars>>
    /\ UNCHANGED <<hist2Vars, appVars>>

\* The file frame_{frame_index:06d}.jpg written with the frame; a file of
\* that name is replaced.
Written(fs, i, f, t) ==
    {x \in fs : x.idx # i} \cup {[idx |-> i, frame |-> f, t |-> t]}

\* cv2.imwrite(filename, frame): writes the file and returns True, or
\* returns False with nothing written, or raises.  The return value is
\* not read.
Imwrite ==
    /\ pc = "imwrite"
    /\ \/ /\ files' = Written(files, frame_index, frame, now)
          /\ saveAfterStop' = IF stop_event THEN Count(saveAfterStop)
                              ELSE saveAfterStop
          /\ pc' = "bump"
          /\ UNCHANGED exc
       \/ /\ files' = files
          /\ pc' = "bump"
          /\ UNCHANGED <<exc, saveAfterStop>>
       \/ /\ \E e \in OtherExceptions : Throw(e)
          /\ UNCHANGED <<files, saveAfterStop>>
    /\ UNCHANGED <<devs, cam, camOpen, grabbing, err, tdFail, escaped,
                   frame_index, last_save_time, frame, now, seq>>
    /\ UNCHANGED <<q, stop_event, uiVars, clock, histVars>>
    /\ UNCHANGED <<stopBeforeOpen, drained, lastOffered, putAfterStop, appVars>>

\* self.last_save_time = now; self.frame_index += 1
Bump ==
    /\ pc = "bump"
    /\ last_save_time' = now
    /\ frame_index' = frame_index + 1
    /\ pc' = "release"
    /\ UNCHANGED <<devs, cam, camOpen, grabbing, err, exc, tdFail, escaped,
                   frame, now, seq>>
    /\ UNCHANGED <<q, stop_event, uiVars, clock, files, histVars>>
    /\ UNCHANGED <<hist2Vars, appVars>>

\* grab.Release()
Release ==
    /\ pc = "release"
    /\ pc' = "loop"
    /\ UNCHANGED <<devs, cam, camOpen, grabbing, err, exc, tdFail, escaped,
                   frame_index, last_save_time, frame, now, seq>>
    /\ UNCHANGED <<q, stop_event, uiVars, clock, files, histVars>>
    /\ UNCHANGED <<hist2Vars, appVars>>

\* The value the handler stores: self.err = str(e)
Caught(e) == Str(e)

\* except Exception as e: self.err = str(e)
Except ==
    /\ pc = "except"
    /\ err' = Caught(exc)
    /\ pc' = "finally"
    /\ UNCHANGED <<devs, cam, camOpen, grabbing, exc, tdFail, escaped,
                   frame_index, last_save_time, frame, now, seq>>
    /\ UNCHANGED <<q, stop_event, uiVars, clock, files, histVars>>
    /\ UNCHANGED <<hist2Vars, appVars>>

\* Variant: the teardown starts by resetting the saved-frame counter.
FinallyResetCounter ==
    /\ pc = "finally"
    /\ pc' = IF cam # "None" THEN "stopgrab" ELSE "done"
    /\ frame_index' = 0
    /\ UNCHANGED <<devs, cam, camOpen, grabbing, err, exc, tdFail, escaped,
                   last_save_time, frame, now, seq>>
    /\ UNCHANGED <<q, stop_event, uiVars, clock, files, histVars>>
    /\ UNCHANGED <<hist2Vars, appVars>>

\* finally: try: if self.cam:
Finally ==
    /\ pc = "finally"
    /\ pc' = IF cam # "None" THEN "stopgrab" ELSE "done"
    /\ UNCHANGED <<devs, cam, camOpen, grabbing, err, exc, tdFail, escaped,
                   frame_index, last_save_time, frame, now, seq>>
    /\ UNCHANGED <<q, stop_event, uiVars, clock, files, histVars>>
    /\ UNCHANGED <<hist2Vars, appVars>>

\* Variant: the teardown has no handler of its own and the exception
\* leaves run().
Reraise(which) ==
    /\ tdFail' = which
    /\ pc' = "done"
    /\ escaped' = TRUE
    /\ UNCHANGED err

\* Variant: the teardown handler reports the failed call in the error field.
SwallowIntoErr(which) ==
    /\ tdFail' = which
    /\ pc' = "done"
    /\ err' = which
    /\ UNCHANGED escaped

\* Where control goes when the teardown call `which` raises:
\* except Exception: pass, then the end of run().
Swallow(which) ==
    /\ tdFail' = which
    /\ pc' = "done"
    /\ UNCHANGED <<err, escaped>>

\* self.cam.StopGrabbing()
StopGrabbing ==
    /\ pc = "stopgrab"
    /\ \/ /\ grabbing' = FALSE
          /\ pc' = "close"
          /\ UNCHANGED <<err, tdFail, escaped>>
       \/ /\ Swallow("stop")
          /\ UNCHANGED grabbing
    /\ UNCHANGED <<devs, cam, camOpen, exc, frame_index, last_save_time,
                   frame, now, seq>>
    /\ UNCHANGED <<q, stop_event, uiVars, clock, files, histVars>>
    /\ UNCHANGED <<hist2Vars, appVars>>

\* self.cam.Close(); a Close() that raises may or may not have released
\* the device.
Close ==
    /\ pc = "close"
    /\ \/ /\ camOpen' = FALSE
          /\ pc' = "done"
          /\ UNCHANGED <<err, tdFail, escaped>>
       \/ /\ Swallow("close")
          /\ camOpen' \in {camOpen, FALSE}
    /\ UNCHANGED <<devs, cam, grabbing, exc, frame_index, last_save_time,
                   frame, now, seq>>
    /\ UNCHANGED <<q, stop_event, uiVars, clock, files, histVars>>
    /\ UNCHANGED <<hist2Vars, appVars>>

Grabber ==
    \/ EnumerateDevices \/ CreateCamera \/ Open \/ Configure \/ StartGrabbing
    \/ LoopCheck \/ RetrieveResult \/ Convert \/ PutNowait \/ SaveCheck
    \/ Imwrite \/ Bump \/ Release \/ Except \/ Finally \/ StopGrabbing
    \/ Close

\* ============================================================ environment
\* The grab ends on the device's side (the device is removed):
\* cam.IsGrabbing() turns false.  Only the loop condition and the retrieve
\* call read it, so the change is placed right before one of them.
GrabStops ==
    /\ grabbing
    /\ pc \in {"loop", "retrieve"}
    /\ grabbing' = FALSE
    /\ UNCHANGED <<pc, devs, cam, camOpen, err, exc, tdFail, escaped,
                   frame_index, last_save_time, frame, now, seq>>
    /\ UNCHANGED <<q, stop_event, uiVars, clock, files, histVars>>
    /\ UNCHANGED <<hist2Vars, appVars>>

\* ================================================= consumer: update_ui
\* update_ui(): frame = None
UpdateUi ==
    /\ upc = "idle"
    /\ uframe' = 0
    /\ upc' = "drain"
    /\ UNCHANGED <<tk_image, info>>
    /\ UNCHANGED <<grabVars, q, stop_event, clock, files, histVars>>
    /\ drained' = <<>>
    /\ UNCHANGED <<stopBeforeOpen, lastOffered, putAfterStop, saveAfterStop, appVars>>

\* Variant: the drain keeps the first frame it removed.
GetNowaitKeepFirst ==
    /\ upc = "drain"
    /\ IF q # <<>>
       THEN /\ uframe' = IF uframe = 0 THEN Head(q) ELSE uframe
            /\ q' = Tail(q)
            /\ upc' = "drain"
            /\ offered' = IF Tail(q) = <<>> THEN <<>> ELSE offered
            /\ tainted' = (Tail(q) # <<>>)
       ELSE /\ upc' = "render"
            /\ offered' = <<>>
            /\ tainted' = FALSE
            /\ UNCHANGED <<uframe, q>>
    /\ UNCHANGED <<tk_image, info>>
    /\ UNCHANGED <<grabVars, stop_event, clock, files>>
    /\ UNCHANGED <<nOpen, nRetr, retrAfterStop>>
    /\ drained' = IF q # <<>> THEN Remember(drained, Head(q)) ELSE drained
    /\ UNCHANGED <<stopBeforeOpen, lastOffered, putAfterStop, saveAfterStop, appVars>>

\* while True: frame = q.get_nowait(), until queue.Empty
GetNowait ==
    /\ upc = "drain"
    /\ IF q # <<>>
       THEN /\ uframe' = Head(q)
            /\ q' = Tail(q)
            /\ upc' = "drain"
            /\ offered' = IF Tail(q) = <<>> THEN <<>> ELSE offered
            /\ tainted' = (Tail(q) # <<>>)
       ELSE /\ upc' = "render"
            /\ offered' = <<>>
            /\ tainted' = FALSE
            /\ UNCHANGED <<uframe, q>>
    /\ UNCHANGED <<tk_image, info>>
    /\ UNCHANGED <<grabVars, stop_event, clock, files>>
    /\ UNCHANGED <<nOpen, nRetr, retrAfterStop>>
    /\ drained' = IF q # <<>> THEN Remember(drained, Head(q)) ELSE drained
    /\ UNCHANGED <<stopBeforeOpen, lastOffered, putAfterStop, saveAfterStop, appVars>>

\* if frame is not None: ... label.config(image=tk_image)
Render ==
    /\ upc = "render"
    /\ tk_image' = IF uframe # 0 THEN uframe ELSE tk_image
    /\ upc' = "status"
    /\ UNCHANGED <<uframe, info>>
    /\ UNCHANGED <<grabVars, q, stop_event, clock, files, histVars>>
    /\ UNCHANGED <<hist2Vars, appVars>>

\* Variant: the status update clears the error it has displayed.
StatusClearErr ==
    /\ upc = "status"
    /\ IF Truthy(err)
       THEN /\ info' = [kind |-> "error", err |-> err, n |-> 0]
            /\ upc' = "idle"
            /\ err' = None
       ELSE /\ upc' = "count"
            /\ UNCHANGED <<info, err>>
    /\ UNCHANGED <<uframe, tk_image>>
    /\ UNCHANGED <<pc, devs, cam, camOpen, grabbing, exc, tdFail, escaped,
                   frame_index, last_save_time, frame, now, seq>>
    /\ UNCHANGED <<q, stop_event, clock, files, histVars>>
    /\ UNCHANGED <<hist2Vars, appVars>>

\* if grabber.err: info.config(text=f"[!] {grabber.err}")
Status ==
    /\ upc = "status"
    /\ IF Truthy(err)
       THEN /\ info' = [kind |-> "error", err |-> err, n |-> 0]
            /\ upc' = "idle"
       ELSE /\ upc' = "count"
            /\ UNCHANGED info
    /\ UNCHANGED <<uframe, tk_image>>
    /\ UNCHANGED <<grabVars, q, stop_event, clock, files, histVars>>
    /\ UNCHANGED <<hist2Vars, appVars>>

\* else: info.config(text=f"Streaming... {grabber.frame_index} frames saved")
StatusCount ==
    /\ upc = "count"
    /\ info' = [kind |-> "streaming", err |-> None, n |-> frame_index]
    /\ upc' = "idle"
    /\ UNCHANGED <<uframe, tk_image>>
    /\ UNCHANGED <<grabVars, q, stop_event, clock, files, histVars>>
    /\ UNCHANGED <<hist2Vars, appVars>>

\* on_close(): stop_event.set(); top.destroy().  Tk runs it between two
\* update_ui callbacks; the destroyed window schedules no further one.
OnClose ==
    /\ upc = "idle"
    /\ stop_event' = TRUE
    /\ upc' = "closed"
    /\ UNCHANGED <<uframe, tk_image, info>>
    /\ UNCHANGED <<grabVars, q, clock, files, histVars>>
    /\ stopBeforeOpen' = (~camOpen /\ pc \in {"enumerate", "create", "open"})
    /\ UNCHANGED <<drained, lastOffered, putAfterStop, saveAfterStop, appVars>>

Consumer == UpdateUi \/ GetNowait \/ Render \/ Status \/ StatusCount \/ OnClose

Next == Grabber \/ GrabStops \/ Consumer

Spec == Init /\ [][Next]_vars

\* ------------------------------------------- the whole application
\* motor_controls.on_close(): ... root.destroy(); sys.exit(0).  Tk runs it
\* between two callbacks.  Destroying the root destroys the camera window
\* without calling its on_close, so the stop flag is left as it is; the
\* process exits, and the daemon thread ends with it wherever it stands.
MotorOnClose ==
    /\ ~exited
    /\ upc \in {"idle", "closed"}
    /\ exited' = TRUE
    /\ upc' = "closed"
    /\ UNCHANGED <<uframe, tk_image, info>>
    /\ UNCHANGED <<grabVars, q, stop_event, clock, files, histVars>>
    /\ UNCHANGED <<hist2Vars, sim>>

\* The threads run while the process lives.
NextApp == (~exited /\ Next) \/ MotorOnClose

SpecApp == Init /\ [][NextApp]_vars

\* ------------------------------------------- a device that never runs dry
\* RetrieveResult() on a device that goes on delivering frames for ever;
\* the frames after the MaxFrames-th are not told apart.
RetrieveResultStream ==
    /\ pc = "retrieve"
    /\ nRetr' = Count(nRetr)
    /\ retrAfterStop' = IF stop_event THEN Count(retrAfterStop)
                        ELSE retrAfterStop
    /\ \/ /\ grabbing
          /\ seq' = IF seq < MaxFrames THEN seq + 1 ELSE seq
          /\ pc' = "convert"
          /\ UNCHANGED exc
       \/ /\ grabbing
          /\ pc' = "release"
          /\ UNCHANGED <<exc, seq>>
       \/ /\ \E e \in RetrieveRaises : Throw(e)
          /\ UNCHANGED seq
    /\ UNCHANGED <<devs, cam, camOpen, grabbing, err, tdFail, escaped,
                   frame_index, last_save_time, frame, now>>
    /\ UNCHANGED <<q, stop_event, uiVars, clock, files>>
    /\ UNCHANGED <<offered, tainted, nOpen>>
    /\ UNCHANGED <<hist2Vars, appVars>>

GrabberStream ==
    \/ EnumerateDevices \/ CreateCamera \/ Open \/ Configure \/ StartGrabbing
    \/ LoopCheck \/ RetrieveResultStream \/ Convert \/ PutNowait \/ SaveCheck
    \/ Imwrite \/ Bump \/ Release \/ Except \/ Finally \/ StopGrabbing
    \/ Close

NextStream == GrabberStream \/ GrabStops \/ Consumer

\* The scheduler runs the grabber thread while it can take a step, and Tk
\* runs the update_ui callback it has started to its end.
FairSpecStream ==
    /\ Init /\ [][NextStream]_vars
    /\ WF_vars(GrabberStream)
    /\ WF_vars(GetNowait)

\* ------------------------------------------------- the cadence alone
\* The device is open and grabbing, and delivers StreamFrames frames one
\* period apart; the save interval and the period are the inputs.  The
\* first clock reading is at least one interval, as the epoch clock is.
InitCadence ==
    /\ pc = "loop" /\ devs = "found" /\ cam = "camera"
    /\ camOpen = TRUE /\ grabbing = TRUE
    /\ err = None /\ exc = NoExc /\ tdFail = "none" /\ escaped = FALSE
    /\ frame_index = 0 /\ last_save_time = 0
    /\ frame = 0 /\ now = 0 /\ seq = 0
    /\ q = <<>> /\ stop_event = FALSE
    /\ upc = "idle" /\ uframe = 0 /\ tk_image = 0 /\ info = InfoStarting
    /\ files = {}
    /\ offered = <<>> /\ tainted = FALSE
    /\ nOpen = 1 /\ nRetr = 0 /\ retrAfterStop = 0
    /\ stopBeforeOpen = FALSE /\ drained = <<>> /\ lastOffered = 0
    /\ putAfterStop = 0 /\ saveAfterStop = 0
    /\ exited = FALSE
    /\ sim \in [period : 1 .. MaxPeriod, interval : 1 .. MaxInterval]
    /\ clock = sim.interval

\* One iteration of the loop on the next frame of the stream, every call
\* succeeding: now = time.time(); if now - self.last_save_time >= interval:
\* imwrite; self.last_save_time = now; self.frame_index += 1
CadenceStep ==
    /\ seq < StreamFrames
    /\ LET t == IF seq = 0 THEN clock ELSE clock + sim.period
       IN  /\ seq' = seq + 1
           /\ frame' = seq + 1
           /\ clock' = t
           /\ now' = t
           /\ IF DueWith(t, last_save_time, sim.interval)
              THEN /\ files' = Written(files, frame_index, seq + 1, t)
                   /\ last_save_time' = t
                   /\ frame_index' = frame_index + 1
              ELSE UNCHANGED <<files, last_save_time, frame_index>>
    /\ UNCHANGED <<pc, devs, cam, camOpen, grabbing, err, exc, tdFail, escaped>>
    /\ UNCHANGED <<q, stop_event, uiVars, histVars, hist2Vars, appVars>>

SpecCadence == InitCadence /\ [][CadenceStep]_vars

\* The thread scheduler runs the grabber thread while it can take a step.
FairSpec == Spec /\ WF_vars(Grabber)


\* ================================================================ claims
\* Positions of run() after the except clause.
AfterExcept == {"finally", "stopgrab", "close", "done"}

\* C1: in every reachable state the preview buffer holds at most 2 frames,
\* and whenever the acquisition loop is at its insert the insert can be
\* taken at once, whether the buffer is full or not: it never waits for the
\* consumer.
C1_BoundedNonBlocking ==
    /\ Len(q) <= 2
    /\ pc = "put" => ENABLED PutNowait

\* C1 witness: an insert on a full buffer has just completed, the frame
\* rejected.
C1_Witness ==
    /\ pc = "savecheck"
    /\ Len(q) = 2
    /\ Len(offered) > 2
    /\ frame \notin {q[i] : i \in 1 .. Len(q)}

\* C2: when N >= 2 frames have been offered to the empty buffer with no
\* consumer removal in between, exactly 2 are retained, and they are the two
\* offered first.
C2_TwoEarliestRetained ==
    (~tainted /\ Len(offered) >= 2) => q = <<offered[1], offered[2]>>

\* C2 witness: three frames offered without a poll, the first two retained.
C2_Witness ==
    /\ ~tainted
    /\ Len(offered) = 3
    /\ q = <<offered[1], offered[2]>>

\* C3 (as claimed): once the acquisition thread has terminated, whatever
\* the exit path, the device is not open.
C3_DeviceReleased ==
    pc = "done" => ~camOpen

\* C4 (as claimed): a retrieve call that times out while the flag is not
\* set leaves the loop running with the error field empty.
C4_TimeoutTransient ==
    [][(pc = "retrieve" /\ ~stop_event /\ exc'.kind = "Timeout")
         => (pc' \in {"loop", "retrieve"} /\ err' = None)]_vars

\* C4 (amended): a retrieve call that times out ends the loop: the timeout
\* exception goes to the handler, the error field takes its message, the
\* thread is in teardown or done, and no retrieve call follows.
C4_TimeoutFatal ==
    exc.kind = "Timeout" =>
        /\ exc.at = "retrieve"
        /\ pc \in {"except"} \cup AfterExcept
        /\ pc \in AfterExcept => err = TimeoutMsg

\* C4 witness: the thread has ended after a timeout, the message latched.
C4_Witness ==
    /\ exc.kind = "Timeout"
    /\ pc = "done"
    /\ err = TimeoutMsg
    /\ ~stop_event

\* C5 (as claimed): once a retrieval exception has been handled, the error
\* string is non-empty to the consumer's test, whatever the message, in
\* every later state.
C5_ErrorLatched ==
    (exc.at = "retrieve" /\ pc \in AfterExcept) => Truthy(err)

\* C6: when no device is enumerated, the attempt ends with no Open() and no
\* RetrieveResult() call and no retry; the error string is non-empty, the
\* saved-frame count is 0 and the preview buffer is empty in every later
\* state, and every consumer status read made then shows the error.
C6_NoDevice ==
    /\ [](devs = "empty" =>
            /\ pc \in {"finally", "done"}
            /\ cam = "None" /\ ~camOpen
            /\ nOpen = 0 /\ nRetr = 0 /\ seq = 0
            /\ err = NoCameraMsg /\ Truthy(err)
            /\ frame_index = 0 /\ files = {}
            /\ q = <<>>)
    /\ [][(devs = "empty" /\ upc = "status" /\ upc' # "status")
            => (info'.kind = "error" /\ info'.err = NoCameraMsg)]_vars

\* C6 witness: the thread has ended with no device and the consumer has
\* read the error.
C6_Witness ==
    /\ devs = "empty"
    /\ pc = "done"
    /\ info.kind = "error"
    /\ upc = "closed"

Running == {"loop", "retrieve", "convert", "put", "savecheck", "imwrite",
            "bump", "release"}

\* C8: under a scheduler that keeps running the acquisition thread, with
\* every RetrieveResult() call returning, once the stop flag is set while
\* the loop is Running the thread reaches its end with the teardown
\* executed (the device closed or a teardown call's exception passed over),
\* and at most one RetrieveResult() call returns after the flag was set.
C8_CancellationHonoured ==
    /\ (stop_event /\ pc \in Running)
         ~> (pc = "done" /\ (~camOpen \/ tdFail # "none"))
    /\ [](retrAfterStop <= 1)

\* C8 witness: the flag was set while a retrieve was pending, that one call
\* returned, and the thread has ended by cancellation alone.
C8_Witness ==
    /\ stop_event
    /\ retrAfterStop = 1
    /\ pc = "done"
    /\ exc = NoExc
    /\ ~camOpen

\* C9 (as claimed): the indices of the frame files on disk are 0, 1, 2, ...
\* with none repeated and none skipped, and a file of a higher index holds a
\* frame retrieved later.
C9_MonotonicIndexing ==
    /\ {f.idx : f \in files} = 0 .. (Cardinality(files) - 1)
    /\ \A f, g \in files : f.idx < g.idx => f.frame < g.frame

\* The timestamp of the latest frame file on disk (0: no file).
LastFileTime ==
    IF files = {} THEN 0
    ELSE CHOOSE t \in {f.t : f \in files} : \A f \in files : f.t <= t

CeilDiv(a, d) == (a + d - 1) \div d

\* The larger of two numbers.
Max(a, b) == IF a >= b THEN a ELSE b

\* C11 (as claimed): after any number of frames of a stream at a constant
\* rate R = 1/period, with target save rate S = 1/interval and T = frames *
\* period, the saved-frame count is within one of min(R, S) * T; and 100
\* frames at 100 Hz with a 60 Hz target give a count between 59 and 61.
C11_CountNearMinRate ==
    LET m == Max(sim.period, sim.interval)
        d == frame_index * m - seq * sim.period
    IN  /\ d <= m /\ -d <= m
        /\ (sim.period = 3 /\ sim.interval = 5 /\ seq = 100)
              => (frame_index >= 59 /\ frame_index <= 61)

\* C11 (amended): the cadence saves the first frame and then every
\* ceil(interval / period)-th frame, so after n frames the saved-frame count
\* is ceil(n / ceil(interval / period)).
C11_GreedyCount ==
    frame_index = CeilDiv(seq, CeilDiv(sim.interval, sim.period))

\* C11 witness: 100 frames at 100 Hz with a 60 Hz target (ticks of 1/300 s)
\* have given 50 saved frames.
C11_Witness ==
    /\ sim.period = 3 /\ sim.interval = 5
    /\ seq = 100
    /\ frame_index = 50
    /\ Cardinality(files) = 50

\* C12: a write that fails, by raising or by returning False with nothing
\* written, leaves the acquisition loop Running, and unless it is reported
\* through the error field nothing tells the consumer of it.
C12_PersistFailureNonFatal ==
    [][(pc = "imwrite" /\ pc' # pc /\ files' = files)
          => (pc' \in Running /\ err' # None)]_vars

\* C13: when the stop flag was set before the device was opened, the thread
\* ends with no exception escaped and the device released.
C13_StopBeforeOpenReleases ==
    (stopBeforeOpen /\ pc = "done") => (~escaped /\ ~camOpen)

\* The last frame the current poll has removed, 0 when it has removed none.
LastDrained == IF drained = <<>> THEN 0 ELSE drained[Len(drained)]

\* C14: the consumer's removal can always be taken at once, on an empty
\* buffer too; the frames a poll removes come out in insertion order and the
\* frame held for rendering is the last of them; the render step shows that
\* frame, or keeps the displayed frame when the poll removed none; and the
\* steps that follow the render set the status text from the error field or
\* the saved-frame counter.
C14_DrainToLatest ==
    /\ [](upc = "drain" => ENABLED GetNowait)
    /\ [](\A i \in 1 .. Len(drained) : \A j \in 1 .. Len(drained) :
             i < j => drained[i] < drained[j])
    /\ [](upc \in {"drain", "render"} => uframe = LastDrained)
    /\ [][(upc = "drain" /\ upc' = "render") => (q = <<>>)]_vars
    /\ [][(upc = "render" /\ upc' # upc)
             => (/\ upc' = "status"
                 /\ tk_image' = IF drained = <<>> THEN tk_image
                                ELSE LastDrained)]_vars
    /\ [][(upc \in {"status", "count"} /\ upc' # upc)
             => \/ upc' = "count" /\ ~Truthy(err)
                \/ /\ upc' = "idle"
                   /\ info' = IF upc = "status"
                              THEN [kind |-> "error", err |-> err, n |-> 0]
                              ELSE [kind |-> "streaming", err |-> None,
                                    n |-> frame_index]]_vars

\* C14 witness: a poll has removed two frames and rendered the second.
C14_Witness ==
    /\ upc = "status"
    /\ Len(drained) = 2
    /\ tk_image = drained[2]

\* A step of the consumer: update_ui or on_close.
ConsumerStep == uiVars' # uiVars \/ drained' # drained

\* C15: every consumer step leaves the saved-frame counter, the last-saved
\* timestamp, the error field and the rest of the grabber's state as they
\* are, changes the preview buffer only by removing its head and the stop
\* flag only by setting it; and the three fields change only in steps of
\* the acquisition loop.
C15_SingleWriter ==
    /\ [][ConsumerStep
             => (/\ UNCHANGED <<frame_index, last_save_time, err>>
                 /\ UNCHANGED <<grabVars, files>>
                 /\ q' = q \/ (q # <<>> /\ q' = Tail(q))
                 /\ stop_event' = stop_event \/ stop_event' = TRUE)]_vars
    /\ [][(<<frame_index, last_save_time, err>>'
              # <<frame_index, last_save_time, err>>)
             => (pc \notin {"done"} /\ pc' # pc /\ ~ConsumerStep)]_vars

\* C15 witness: the consumer has rendered a frame, displayed an error and
\* closed the window, with frames saved and the error field still set.
C15_Witness ==
    /\ upc = "closed" /\ stop_event
    /\ tk_image # 0
    /\ info.kind = "error"
    /\ frame_index > 0
    /\ Truthy(err)
    /\ info.err = err

\* C16: whenever the process has exited, the acquisition thread had ended by
\* itself, or at least the device was not open when the thread was ended.
C16_NoForcedTermination ==
    exited => (pc = "done" \/ ~camOpen)

\* C17: whenever the acquisition loop leaves Running with the stop flag not
\* set, it leaves through the exception handler with a non-empty message to
\* store in the error field.
C17_StoppedOnlyIfCancelled ==
    [][(pc \in Running /\ pc' \notin Running /\ ~stop_event)
          => (pc' = "except" /\ Truthy(Caught(exc')))]_vars

\* C18: a loop check that sees the stop flag set starts no retrieve call but
\* leaves the loop, so after the flag is set at most one retrieve call is
\* made, at most one more frame is offered to the preview buffer and at most
\* one more frame is written.
C18_CheckedBeforeRetrieval ==
    /\ [][(pc = "loop" /\ stop_event /\ pc' # pc) => pc' = "finally"]_vars
    /\ [][(pc' = "retrieve" /\ pc' # pc) => (pc = "loop" /\ ~stop_event)]_vars
    /\ [](retrAfterStop <= 1)
    /\ [](putAfterStop <= 1)
    /\ [](saveAfterStop <= 1)

\* C18 witness: the flag was set during an iteration, whose frame was then
\* still offered and saved, and the thread has ended.
C18_Witness ==
    /\ stop_event
    /\ putAfterStop = 1
    /\ saveAfterStop = 1
    /\ pc = "done"

\* C19: the frames in the preview buffer are in strictly increasing
\* retrieval order, every frame a render step shows is later in retrieval
\* order than the frame displayed before, and the displayed frame changes
\* in no other way.
C19_OrderPreserved ==
    /\ [](\A i \in 1 .. Len(q) : \A j \in 1 .. Len(q) : i < j => q[i] < q[j])
    /\ [][(upc = "render" /\ upc' # upc /\ uframe # 0)
             => tk_image' > tk_image]_vars
    /\ [][tk_image' # tk_image => tk_image' > tk_image]_vars

\* C19 witness: a poll that removed frame 3 alone, inserted while an earlier
\* frame was displayed, has rendered it.
C19_Witness ==
    /\ upc = "status"
    /\ drained = <<3>>
    /\ tk_image = 3
    /\ Len(q) = 0

\* C20: the insert step, whether the buffer takes the frame or not, sets no
\* error, raises nothing, saves nothing and goes on to the save decision;
\* the decision is the interval test on the clock alone and does not read
\* the buffer; the frame it is taken for is the frame just offered; and a
\* skip leaves the saved-frame counter, the last-saved timestamp and the
\* files unchanged up to the next loop check.
C20_SinksIndependent ==
    /\ [][(pc = "put" /\ pc' # pc)
             => (/\ pc' = "savecheck"
                 /\ UNCHANGED <<err, exc, frame, frame_index,
                                last_save_time, files>>)]_vars
    /\ [][(pc = "savecheck" /\ pc' # pc)
             => (/\ pc' = IF Due(now', last_save_time) THEN "imwrite"
                          ELSE "release"
                 /\ UNCHANGED <<q, frame, frame_index, last_save_time,
                                files>>)]_vars
    /\ [](pc \in {"savecheck", "imwrite", "bump"} => lastOffered = frame)
    /\ [][(pc = "release")
             => UNCHANGED <<frame_index, last_save_time, files>>]_vars

\* C20 witness: a frame the full buffer rejected has been written.
C20_Witness ==
    /\ pc = "bump"
    /\ Len(q) = 2
    /\ frame \notin {q[i] : i \in 1 .. Len(q)}
    /\ \E x \in files : x.frame = frame /\ x.idx = frame_index

\* C21: the error field is None until the thread writes it; it changes only
\* from None to a value, only in the no-device branch or in the exception
\* handler, and a field that holds a value keeps it in every later state,
\* so every status the consumer displays shows None's text or that value.
C21_ErrWrittenOnce ==
    /\ [](pc \in {"enumerate", "create", "open"} /\ exc = NoExc => err = None)
    /\ [][err' # err
             => (err = None /\ err' # None
                 /\ pc \in {"enumerate", "except"})]_vars
    /\ [][(err # None) => (err' = err)]_vars
    /\ [](info.kind = "error" => info.err = err)

\* C21 witness: the handler wrote the error, the teardown then failed as
\* well, and the consumer displays the value written first.
C21_Witness ==
    /\ pc = "done"
    /\ exc # NoExc
    /\ tdFail # "none"
    /\ err = Caught(exc)
    /\ info.kind = "error" /\ info.err = err

\* cam.Open() was called and returned.
OpenedOk == nOpen >= 1 /\ ~(exc # NoExc /\ exc.at = "open")

\* C22: Open() is called at most once and the device never becomes open
\* again after that call; Close() is called only on a device that is open;
\* and a thread that ends after a successful Open() has called Close().
C22_DeviceLifecycle ==
    /\ [](nOpen <= 1)
    /\ [][(~camOpen /\ camOpen') => (pc = "open" /\ nOpen = 0)]_vars
    /\ [][(pc = "close" /\ pc' # pc) => camOpen]_vars
    /\ []((pc = "done" /\ OpenedOk) => tdFail # "stop")

\* C23: once the loop has ended (the thread is in its teardown or done),
\* the thread stays there; no frame is retrieved, no retrieve call is made,
\* nothing is inserted into the preview buffer, which only loses frames to
\* the consumer, no file is written, and the saved-frame counter, the
\* last-saved timestamp and the error field keep their values, under every
\* consumer step.
C23_TerminalAbsorbing ==
    [][(pc \in AfterExcept)
          => (/\ pc' \in AfterExcept
              /\ UNCHANGED <<seq, frame, nRetr, files, lastOffered>>
              /\ UNCHANGED <<frame_index, last_save_time, err>>
              /\ q' = q \/ (q # <<>> /\ q' = Tail(q)))]_vars

\* C23 witness: the thread has ended without an error after saving frames,
\* and a consumer poll has just removed a frame from the buffer.
C23_Witness ==
    /\ pc = "done"
    /\ err = None
    /\ frame_index > 0
    /\ upc = "render"
    /\ drained # <<>>

\* C24: the saved-frame counter never decreases, is never greater than the
\* number of frame files written and is at most one behind it, and the
\* count the consumer displays is never greater than the number of files.
C24_CounterTracksFiles ==
    /\ [][frame_index' >= frame_index]_vars
    /\ [](frame_index <= Cardinality(files))
    /\ [](Cardinality(files) <= frame_index + 1)
    /\ [](info.kind = "streaming" => info.n <= Cardinality(files))

\* C26: the save test of the first frame retrieved is always met, and once
\* the counter has passed 0 the file of index 0 exists and holds that frame.
C26_FirstFrameSaved ==
    /\ [][(pc = "savecheck" /\ frame = 1 /\ last_save_time = 0 /\ pc' # pc)
             => pc' = "imwrite"]_vars
    /\ [](frame_index >= 1 => \E x \in files : x.idx = 0 /\ x.frame = 1)

\* C25: every consumer poll that has started its drain loop reaches its
\* render step, whatever the acquisition loop inserts meanwhile.
C25_PollTerminates ==
    (upc = "drain") ~> (upc = "render")

=============================================================================
